---- MODULE Spec2Model ----
(***************************************************************************)
(* ErrorHandledHandler (src/main.rs): a handler wrapper that pairs a       *)
(* fallible handler F with an error handler FE.  `call` splits the         *)
(* request, runs the metadata extractors T1..T(N-1) left to right, puts    *)
(* the request together again, runs the final extractor TN, invokes F and  *)
(* turns its Result into a response, routing Err through trace_error and   *)
(* FE.  The extractors and the handler are type parameters of the code:    *)
(* what each returns for a request is an input, drawn where the code       *)
(* awaits it.  Every statement of `call` is one step of the request's      *)
(* task, and the tasks of several requests interleave at each of them.     *)
(***************************************************************************)
EXTENDS Integers, Sequences, FiniteSets, TLC

\* Largest handler arity explored (the macro generates 1..16, main.rs:104-128).
MaxArity == 4
\* Number of requests that may be in flight together.
NumRequests == 2

Requests == 1..NumRequests
Arities == 0..MaxArity

VARIABLES
    arity,      \* the arity of F: which `impl Handler` the route uses
    state,      \* the application state S handed to every call
    pc,         \* per request: the statement its task is at
    body,       \* per request: who owns the request body
    idx,        \* per request: the metadata extractor to run next
    vals,       \* per request: the values T1.. extracted so far
    last,       \* per request: the value of the final extractor
    result,     \* per request: what self.0(..).await returned
    responses,  \* per request: the responses its future resolved to
    log,        \* records emitted through tracing::error!
    steps,      \* per request: the calls its task made, in order
    outcomes,   \* per request: what the extractors and the handler returned
    calls,      \* per request: the argument lists F was invoked with
    rendered    \* per request: the errors FE was invoked with

vars == <<arity, state, pc, body, idx, vals, last, result, responses, log,
          steps, outcomes, calls, rendered>>

-----------------------------------------------------------------------------
\* Values

\* struct MyErr with its Display and Debug forms.
MyErr == [display |-> "Oh no!", debug |-> "MyErr"]
NoErr == [display |-> "", debug |-> ""]

NoResult == [tag |-> "None", value |-> <<>>, error |-> NoErr]
Ok(v) == [tag |-> "Ok", value |-> v, error |-> NoErr]
Err(e) == [tag |-> "Err", value |-> <<>>, error |-> e]

\* The value extractor number i produces under application state st, and
\* its rejection.
Extracted(i, st) == [by |-> i, v |-> <<"value", st>>]
Rejection(i) == [by |-> i, v |-> <<"rejection">>]
NoValue == [by |-> 0, v |-> <<>>]

\* $ty::from_request_parts(&mut parts, state).await: what extractor i may
\* return.
from_request_parts(i, st) ==
    {[ok |-> TRUE, val |-> Extracted(i, st)], [ok |-> FALSE, val |-> Rejection(i)]}

\* $last::from_request(req, state).await: what the final extractor, number
\* n, may return.
from_request(n, st) ==
    {[ok |-> TRUE, val |-> Extracted(n, st)], [ok |-> FALSE, val |-> Rejection(n)]}

\* rejection.into_response()
rejection_into_response(rej) == [of |-> "rejection", body |-> <<rej>>]

\* value.into_response() of the handler's success value
value_into_response(v) == [of |-> "success", body |-> v]

\* async fn handle_error(_err) -> StatusCode
handle_error(e) == [by |-> 0, v |-> <<"INTERNAL_SERVER_ERROR">>]

\* self.1(e).await.into_response()
rendered_into_response(out) == [of |-> "error_handler", body |-> <<out>>]

\* handler_args with the final extractor's value bound first.
handler_args_last_first(vs, lastv) == <<lastv>> \o vs

\* The argument list of self.0($($ty,)* $last,)
handler_args(vs, lastv) == Append(vs, lastv)

\* What the handler F may return for `args`: the sample handler's error, or
\* a success value made of the arguments.
handler(args) == {Ok(args), Err(MyErr)}

\* trace_error that emits nothing.
trace_error_dropped(lg, e, r) == lg

\* trace_error that remembers it has reported and reports once per process.
trace_error_once(lg, e, r) ==
    IF lg # <<>>
    THEN lg
    ELSE <<[task |-> r,
            message |-> e.display,
            details |-> e.debug,
            text |-> "An error occurred during request handling"]>>

\* tracing::error!(error.message = %e, error.details = ?e, "...")
trace_error(lg, e, r) ==
    Append(lg, [task |-> r,
                message |-> e.display,
                details |-> e.debug,
                text |-> "An error occurred during request handling"])

-----------------------------------------------------------------------------
Init ==
    /\ arity \in Arities
    /\ state = "s0"
    /\ pc = [r \in Requests |-> "idle"]
    /\ body = [r \in Requests |-> "none"]
    /\ idx = [r \in Requests |-> 0]
    /\ vals = [r \in Requests |-> <<>>]
    /\ last = [r \in Requests |-> NoValue]
    /\ result = [r \in Requests |-> NoResult]
    /\ responses = [r \in Requests |-> <<>>]
    /\ log = <<>>
    /\ steps = [r \in Requests |-> <<>>]
    /\ outcomes = [r \in Requests |-> <<>>]
    /\ calls = [r \in Requests |-> <<>>]
    /\ rendered = [r \in Requests |-> <<>>]

\* Number of metadata extractors of the registered handler.
NMeta == IF arity = 0 THEN 0 ELSE arity - 1

\* Return that parks the task with its response never handed over.
Return_never_resolves(r, resp) ==
    /\ UNCHANGED responses
    /\ pc' = [pc EXCEPT ![r] = "pending"]

\* The future resolves to `resp`: the task is over.
Return(r, resp) ==
    /\ responses' = [responses EXCEPT ![r] = Append(@, resp)]
    /\ pc' = [pc EXCEPT ![r] = "done"]

\* The router hands a request to call(self, req, state).
Call(r) ==
    /\ pc[r] = "idle"
    /\ body' = [body EXCEPT ![r] = "request"]
    /\ pc' = [pc EXCEPT ![r] = IF arity = 0 THEN "handler" ELSE "split"]
    /\ steps' = [steps EXCEPT ![r] = Append(@, <<"call", 0>>)]
    /\ UNCHANGED <<arity, state, idx, vals, last, result, responses, log,
                   outcomes, calls, rendered>>

\* let (mut parts, body) = req.into_parts();
Split(r) ==
    /\ pc[r] = "split"
    /\ body' = [body EXCEPT ![r] = "local"]
    /\ idx' = [idx EXCEPT ![r] = 1]
    /\ pc' = [pc EXCEPT ![r] = IF NMeta >= 1 THEN "extract" ELSE "reassemble"]
    /\ steps' = [steps EXCEPT ![r] = Append(@, <<"into_parts", 0>>)]
    /\ UNCHANGED <<arity, state, vals, last, result, responses, log, outcomes,
                   calls, rendered>>

\* Extract that binds a rejection like a value and carries on.
Extract_no_short_circuit(r) ==
    /\ pc[r] = "extract"
    /\ \E res \in from_request_parts(idx[r], state) :
          /\ outcomes' = [outcomes EXCEPT ![r] =
                             Append(@, IF res.ok THEN "Ok" ELSE "Err")]
          /\ vals' = [vals EXCEPT ![r] = Append(@, res.val)]
    /\ steps' = [steps EXCEPT ![r] = Append(@, <<"from_request_parts", idx[r]>>)]
    /\ idx' = [idx EXCEPT ![r] = @ + 1]
    /\ pc' = [pc EXCEPT ![r] = IF idx[r] < NMeta THEN "extract" ELSE "reassemble"]
    /\ UNCHANGED <<arity, state, body, last, result, responses, log, calls,
                   rendered>>

\* Extract that reports the rejection through the error log.
Extract_logs_rejection(r) ==
    /\ pc[r] = "extract"
    /\ steps' = [steps EXCEPT ![r] = Append(@, <<"from_request_parts", idx[r]>>)]
    /\ \E res \in from_request_parts(idx[r], state) :
          /\ outcomes' = [outcomes EXCEPT ![r] =
                             Append(@, IF res.ok THEN "Ok" ELSE "Err")]
          /\ IF res.ok
             THEN /\ vals' = [vals EXCEPT ![r] = Append(@, res.val)]
                  /\ idx' = [idx EXCEPT ![r] = @ + 1]
                  /\ pc' = [pc EXCEPT ![r] =
                               IF idx[r] < NMeta THEN "extract" ELSE "reassemble"]
                  /\ UNCHANGED <<responses, body, log>>
             ELSE /\ Return(r, rejection_into_response(res.val))
                  /\ body' = [body EXCEPT ![r] = "dropped"]
                  /\ log' = trace_error(log, MyErr, r)
                  /\ UNCHANGED <<vals, idx>>
    /\ UNCHANGED <<arity, state, last, result, calls, rendered>>

\* Extract that stops one metadata extractor early.
Extract_off_by_one(r) ==
    /\ pc[r] = "extract"
    /\ steps' = [steps EXCEPT ![r] = Append(@, <<"from_request_parts", idx[r]>>)]
    /\ \E res \in from_request_parts(idx[r], state) :
          /\ outcomes' = [outcomes EXCEPT ![r] =
                             Append(@, IF res.ok THEN "Ok" ELSE "Err")]
          /\ IF res.ok
             THEN /\ vals' = [vals EXCEPT ![r] = Append(@, res.val)]
                  /\ idx' = [idx EXCEPT ![r] = @ + 1]
                  /\ pc' = [pc EXCEPT ![r] =
                               IF idx[r] + 1 < NMeta THEN "extract" ELSE "reassemble"]
                  /\ UNCHANGED <<responses, body>>
             ELSE /\ Return(r, rejection_into_response(res.val))
                  /\ body' = [body EXCEPT ![r] = "dropped"]
                  /\ UNCHANGED <<vals, idx>>
    /\ UNCHANGED <<arity, state, last, result, log, calls, rendered>>

\* let $ty = match $ty::from_request_parts(&mut parts, state).await {
\*     Ok(value) => value,
\*     Err(rejection) => return rejection.into_response(),
\* };
Extract(r) ==
    /\ pc[r] = "extract"
    /\ steps' = [steps EXCEPT ![r] = Append(@, <<"from_request_parts", idx[r]>>)]
    /\ \E res \in from_request_parts(idx[r], state) :
          /\ outcomes' = [outcomes EXCEPT ![r] =
                             Append(@, IF res.ok THEN "Ok" ELSE "Err")]
          /\ IF res.ok
             THEN /\ vals' = [vals EXCEPT ![r] = Append(@, res.val)]
                  /\ idx' = [idx EXCEPT ![r] = @ + 1]
                  /\ pc' = [pc EXCEPT ![r] =
                               IF idx[r] < NMeta THEN "extract" ELSE "reassemble"]
                  /\ UNCHANGED <<responses, body>>
             ELSE /\ Return(r, rejection_into_response(res.val))
                  /\ body' = [body EXCEPT ![r] = "dropped"]
                  /\ UNCHANGED <<vals, idx>>
    /\ UNCHANGED <<arity, state, last, result, log, calls, rendered>>

\* let req = Request::from_parts(parts, body);
Reassemble(r) ==
    /\ pc[r] = "reassemble"
    /\ body' = [body EXCEPT ![r] = "reassembled"]
    /\ pc' = [pc EXCEPT ![r] = "last"]
    /\ steps' = [steps EXCEPT ![r] = Append(@, <<"from_parts", 0>>)]
    /\ UNCHANGED <<arity, state, idx, vals, last, result, responses, log,
                   outcomes, calls, rendered>>

\* ExtractLast that binds a rejection like a value and invokes the handler.
ExtractLast_ignores_rejection(r) ==
    /\ pc[r] = "last"
    /\ steps' = [steps EXCEPT ![r] = Append(@, <<"from_request", arity>>)]
    /\ body' = [body EXCEPT ![r] = "consumed"]
    /\ \E res \in from_request(arity, state) :
          /\ outcomes' = [outcomes EXCEPT ![r] =
                             Append(@, IF res.ok THEN "Ok" ELSE "Err")]
          /\ last' = [last EXCEPT ![r] = res.val]
    /\ pc' = [pc EXCEPT ![r] = "handler"]
    /\ UNCHANGED <<arity, state, idx, vals, result, responses, log, calls,
                   rendered>>

\* let $last = match $last::from_request(req, state).await {
\*     Ok(value) => value,
\*     Err(rejection) => return rejection.into_response(),
\* };
ExtractLast(r) ==
    /\ pc[r] = "last"
    /\ steps' = [steps EXCEPT ![r] = Append(@, <<"from_request", arity>>)]
    /\ body' = [body EXCEPT ![r] = "consumed"]
    /\ \E res \in from_request(arity, state) :
          /\ outcomes' = [outcomes EXCEPT ![r] =
                             Append(@, IF res.ok THEN "Ok" ELSE "Err")]
          /\ IF res.ok
             THEN /\ last' = [last EXCEPT ![r] = res.val]
                  /\ pc' = [pc EXCEPT ![r] = "handler"]
                  /\ UNCHANGED responses
             ELSE /\ Return(r, rejection_into_response(res.val))
                  /\ UNCHANGED last
    /\ UNCHANGED <<arity, state, idx, vals, result, log, calls, rendered>>

\* InvokeHandler behind a lock held until the response is produced.
InvokeHandler_exclusive(r) ==
    /\ pc[r] = "handler"
    /\ \A q \in Requests \ {r} : pc[q] \notin {"match", "render"}
    /\ LET args == IF arity = 0 THEN <<>> ELSE handler_args(vals[r], last[r])
       IN  /\ calls' = [calls EXCEPT ![r] = Append(@, args)]
           /\ \E res \in handler(args) :
                 /\ result' = [result EXCEPT ![r] = res]
                 /\ outcomes' = [outcomes EXCEPT ![r] = Append(@, res.tag)]
    /\ pc' = [pc EXCEPT ![r] = "match"]
    /\ steps' = [steps EXCEPT ![r] = Append(@, <<"handler", 0>>)]
    /\ UNCHANGED <<arity, state, body, idx, vals, last, responses, log,
                   rendered>>

\* match self.0($($ty,)* $last,).await {      (self.0().await for arity 0)
InvokeHandler(r) ==
    /\ pc[r] = "handler"
    /\ LET args == IF arity = 0 THEN <<>> ELSE handler_args(vals[r], last[r])
       IN  /\ calls' = [calls EXCEPT ![r] = Append(@, args)]
           /\ \E res \in handler(args) :
                 /\ result' = [result EXCEPT ![r] = res]
                 /\ outcomes' = [outcomes EXCEPT ![r] = Append(@, res.tag)]
    /\ pc' = [pc EXCEPT ![r] = "match"]
    /\ steps' = [steps EXCEPT ![r] = Append(@, <<"handler", 0>>)]
    /\ UNCHANGED <<arity, state, body, idx, vals, last, responses, log,
                   rendered>>

\*     Ok(value) => value.into_response(),
RespondOk(r) ==
    /\ pc[r] = "match"
    /\ result[r].tag = "Ok"
    /\ Return(r, value_into_response(result[r].value))
    /\ steps' = [steps EXCEPT ![r] = Append(@, <<"into_response", 0>>)]
    /\ UNCHANGED <<arity, state, body, idx, vals, last, result, log, outcomes,
                   calls, rendered>>

\* TraceError placed before the match: it runs whatever the handler returned.
TraceError_before_match(r) ==
    /\ pc[r] = "match"
    /\ log' = trace_error(log, result[r].error, r)
    /\ pc' = [pc EXCEPT ![r] = "render"]
    /\ steps' = [steps EXCEPT ![r] = Append(@, <<"trace_error", 0>>)]
    /\ UNCHANGED <<arity, state, body, idx, vals, last, result, responses,
                   outcomes, calls, rendered>>

\*     Err(e) => { trace_error(&e);
TraceError(r) ==
    /\ pc[r] = "match"
    /\ result[r].tag = "Err"
    /\ log' = trace_error(log, result[r].error, r)
    /\ pc' = [pc EXCEPT ![r] = "render"]
    /\ steps' = [steps EXCEPT ![r] = Append(@, <<"trace_error", 0>>)]
    /\ UNCHANGED <<arity, state, body, idx, vals, last, result, responses,
                   outcomes, calls, rendered>>

\*                 self.1(e).await.into_response() }
RenderError(r) ==
    /\ pc[r] = "render"
    /\ rendered' = [rendered EXCEPT ![r] = Append(@, result[r].error)]
    /\ Return(r, rendered_into_response(handle_error(result[r].error)))
    /\ steps' = [steps EXCEPT ![r] = Append(@, <<"handle_error", 0>>)]
    /\ UNCHANGED <<arity, state, body, idx, vals, last, result, log, outcomes,
                   calls>>

\* One step of the task of request r, once the router has called it.
Step(r) ==
    \/ Split(r)
    \/ Extract(r)
    \/ Reassemble(r)
    \/ ExtractLast(r)
    \/ InvokeHandler(r)
    \/ RespondOk(r)
    \/ TraceError(r)
    \/ RenderError(r)

Next ==
    \/ \E r \in Requests : Call(r)
    \/ \E r \in Requests : Split(r)
    \/ \E r \in Requests : Extract(r)
    \/ \E r \in Requests : Reassemble(r)
    \/ \E r \in Requests : ExtractLast(r)
    \/ \E r \in Requests : InvokeHandler(r)
    \/ \E r \in Requests : RespondOk(r)
    \/ \E r \in Requests : TraceError(r)
    \/ \E r \in Requests : RenderError(r)

Spec == Init /\ [][Next]_vars

\* The runtime polls every task that can make progress.
FairSpec == Spec /\ \A r \in Requests : WF_vars(Step(r))

-----------------------------------------------------------------------------
\* Vocabulary of the properties

Started(r) == pc[r] # "idle"
Done(r) == pc[r] = "done"

\* The calls the task of r has made so far.
Ops(r) == {steps[r][k] : k \in DOMAIN steps[r]}

\* The records the task of r has emitted, and what such a record carries.
LogOf(r) == SelectSeq(log, LAMBDA rec : rec.task = r)
Carried(lg) ==
    [k \in DOMAIN lg |-> [message |-> lg[k].message,
                          details |-> lg[k].details,
                          text |-> lg[k].text]]

\* Extractors 1..i-1 returned Ok and extractor i returned Err, for r.
FailedAt(r, i) ==
    /\ Len(outcomes[r]) >= i
    /\ outcomes[r][i] = "Err"
    /\ \A k \in 1..(i - 1) : outcomes[r][k] = "Ok"

\* All the extractors of the handler returned Ok for r.
AllExtracted(r) ==
    /\ Len(outcomes[r]) >= arity
    /\ \A k \in 1..arity : outcomes[r][k] = "Ok"

\* C1: when metadata extractors 1..i-1 succeed and the i-th fails, no later
\* extractor runs, the handler is never invoked, and the response is that
\* extractor's own rejection converted to a response.
C1_MetadataRejectionShortCircuits ==
    \A r \in Requests : \A i \in 1..NMeta :
        FailedAt(r, i) =>
            /\ \A j \in (i + 1)..arity :
                  /\ <<"from_request_parts", j>> \notin Ops(r)
                  /\ <<"from_request", j>> \notin Ops(r)
            /\ Len(outcomes[r]) = i
            /\ <<"handler", 0>> \notin Ops(r)
            /\ calls[r] = <<>>
            /\ responses[r] = <<rejection_into_response(Rejection(i))>>

C1_Witness ==
    \E r \in Requests :
        /\ arity = 3
        /\ FailedAt(r, 2)
        /\ <<"from_request_parts", 1>> \in Ops(r)
        /\ Len(responses[r]) = 1

\* C2: when the handler returns an error, exactly one record carrying its
\* display and debug forms is emitted, before the error handler is invoked;
\* the error handler is invoked once, with that error, and its output is the
\* response, never the error itself.
C2_HandlerErrorLoggedThenRendered ==
    \A r \in Requests :
        LET e == result[r].error IN
        result[r].tag = "Err" =>
            /\ Len(LogOf(r)) <= 1
            /\ Len(rendered[r]) <= 1
            /\ pc[r] \in {"render", "done"} =>
                  Carried(LogOf(r)) =
                      <<[message |-> e.display,
                         details |-> e.debug,
                         text |-> "An error occurred during request handling"]>>
            /\ rendered[r] # <<>> => Len(LogOf(r)) = 1
            /\ \A k \in DOMAIN steps[r] :
                  steps[r][k] = <<"handle_error", 0>> =>
                      \E j \in 1..(k - 1) : steps[r][j] = <<"trace_error", 0>>
            /\ Done(r) =>
                  /\ rendered[r] = <<e>>
                  /\ responses[r] = <<rendered_into_response(handle_error(e))>>
                  /\ responses[r][1].of = "error_handler"

C2_Witness ==
    \E r \in Requests :
        /\ Done(r)
        /\ result[r].tag = "Err"
        /\ Len(LogOf(r)) = 1
        /\ Len(rendered[r]) = 1

\* C3: when every extractor succeeds the handler is invoked exactly once,
\* with the N extracted values, each at the position of its extractor.
C3_HandlerGetsValuesInDeclarationOrder ==
    \A r \in Requests :
        arity >= 1 =>
            /\ Len(calls[r]) <= 1
            /\ calls[r] # <<>> => AllExtracted(r)
            /\ \A k \in DOMAIN calls[r] :
                  /\ Len(calls[r][k]) = arity
                  /\ \A i \in 1..arity : calls[r][k][i] = Extracted(i, state)
            /\ (AllExtracted(r) /\ pc[r] # "handler") => Len(calls[r]) = 1

C3_Witness ==
    \E r \in Requests :
        /\ Done(r)
        /\ arity = 3
        /\ AllExtracted(r)
        /\ Len(calls[r]) = 1
        /\ Len(calls[r][1]) = 3

\* C4: when the metadata extractors succeed and the final extractor fails,
\* neither the handler nor the error handler is invoked and the response is
\* the final extractor's rejection converted to a response.
C4_FinalRejectionShortCircuits ==
    \A r \in Requests :
        (arity >= 1 /\ FailedAt(r, arity)) =>
            /\ calls[r] = <<>>
            /\ rendered[r] = <<>>
            /\ <<"handler", 0>> \notin Ops(r)
            /\ <<"handle_error", 0>> \notin Ops(r)
            /\ responses[r] = <<rejection_into_response(Rejection(arity))>>

C4_Witness ==
    \E r \in Requests :
        /\ Done(r)
        /\ arity = 3
        /\ FailedAt(r, 3)
        /\ <<"from_request", 3>> \in Ops(r)

\* C5: when the handler returns success the response is the success value's
\* rendering, no record is emitted for the request and the error handler is
\* never invoked.
C5_SuccessIsRenderedSilently ==
    \A r \in Requests :
        result[r].tag = "Ok" =>
            /\ LogOf(r) = <<>>
            /\ rendered[r] = <<>>
            /\ <<"trace_error", 0>> \notin Ops(r)
            /\ <<"handle_error", 0>> \notin Ops(r)
            /\ \A k \in DOMAIN responses[r] :
                  responses[r][k] = value_into_response(result[r].value)
            /\ Done(r) => Len(responses[r]) = 1

C5_Witness ==
    \E r \in Requests :
        /\ Done(r)
        /\ result[r].tag = "Ok"
        /\ arity = 2
        /\ responses[r] =
              <<value_into_response(<<Extracted(1, state), Extracted(2, state)>>)>>

\* No call appears twice among the calls of r.
NoRepeat(r) ==
    \A j, k \in DOMAIN steps[r] : j # k => steps[r][j] # steps[r][k]

\* Everything the task of r owns, now and after the step.
Local(r) ==
    <<pc[r], body[r], idx[r], vals[r], last[r], result[r], responses[r],
      steps[r], outcomes[r], calls[r], rendered[r], LogOf(r)>>

LocalNext(r) ==
    <<pc'[r], body'[r], idx'[r], vals'[r], last'[r], result'[r],
      responses'[r], steps'[r], outcomes'[r], calls'[r], rendered'[r],
      SelectSeq(log', LAMBDA rec : rec.task = r)>>

C6_OneResponse ==
    \A r \in Requests :
        /\ Len(responses[r]) <= 1
        /\ Done(r) <=> Len(responses[r]) = 1
        /\ NoRepeat(r)

C6_Terminal ==
    \A r \in Requests : Done(r) => LocalNext(r) = Local(r)

\* C6: every request that enters call reaches "response produced", with
\* exactly one response; no step is repeated, and nothing happens to the
\* request afterwards.
C6_EveryRequestGetsOneResponse ==
    /\ \A r \in Requests : Started(r) ~> Done(r)
    /\ []C6_OneResponse
    /\ [][C6_Terminal]_vars

C6_Witness ==
    /\ \A r \in Requests : Done(r)
    /\ \E r \in Requests : responses[r][1].of = "rejection"
    /\ \E r \in Requests : responses[r][1].of = "error_handler"

\* C7: a rejected extraction is never logged: trace_error is not called and
\* no record is emitted on those paths; records come only from requests
\* whose handler returned an error.
C7_RejectionsAreNotLogged ==
    /\ \A r \in Requests : \A i \in 1..arity :
          FailedAt(r, i) =>
              /\ LogOf(r) = <<>>
              /\ <<"trace_error", 0>> \notin Ops(r)
    /\ \A k \in DOMAIN log : result[log[k].task].tag = "Err"

C7_Witness ==
    \E r1, r2 \in Requests :
        /\ arity = 3
        /\ FailedAt(r1, 1)
        /\ Done(r2)
        /\ responses[r2][1].of = "error_handler"
        /\ Len(log) = 1

\* C8: the same request put through the chain again, with extractors and
\* handler returning what they returned before, gets the same response and
\* the same log output: one record when the handler fails, none otherwise.
C8_ReplayIsIdentical ==
    \A r1, r2 \in Requests :
        (Done(r1) /\ Done(r2) /\ outcomes[r1] = outcomes[r2]) =>
            /\ responses[r1] = responses[r2]
            /\ Carried(LogOf(r1)) = Carried(LogOf(r2))
            /\ Len(LogOf(r1)) = IF result[r1].tag = "Err" THEN 1 ELSE 0

C8_Witness ==
    \E r1, r2 \in Requests :
        /\ r1 # r2
        /\ Done(r1)
        /\ Done(r2)
        /\ outcomes[r1] = outcomes[r2]
        /\ result[r1].tag = "Err"
        /\ Len(log) = 2

\* The calls of a request that passes every extractor, up to the handler.
Lifecycle ==
    <<<<"call", 0>>, <<"into_parts", 0>>>>
        \o [i \in 1..NMeta |-> <<"from_request_parts", i>>]
        \o <<<<"from_parts", 0>>, <<"from_request", arity>>, <<"handler", 0>>>>

\* C9: the steps of a request run in the order split, metadata extractors
\* in declaration order, reassemble, final extractor, handler; a metadata
\* extractor runs while the body is set aside; the request is put together
\* again only once every metadata extractor has succeeded; the body reaches
\* the final extractor only, once.
C9_StepsAreOrdered ==
    \A r \in Requests :
        arity >= 1 =>
            /\ \A k \in DOMAIN steps[r] :
                  k <= Len(Lifecycle) => steps[r][k] = Lifecycle[k]
            /\ pc[r] = "extract" => body[r] = "local"
            /\ <<"from_parts", 0>> \in Ops(r) =>
                  /\ Len(vals[r]) = NMeta
                  /\ \A i \in 1..NMeta :
                        /\ <<"from_request_parts", i>> \in Ops(r)
                        /\ outcomes[r][i] = "Ok"
            /\ body[r] = "reassembled" <=> pc[r] = "last"
            /\ body[r] = "consumed" <=> <<"from_request", arity>> \in Ops(r)
            /\ Cardinality({k \in DOMAIN steps[r] :
                               steps[r][k][1] = "from_request"}) <= 1
            /\ (\E i \in 1..NMeta : FailedAt(r, i)) => body[r] = "dropped"

C9_Witness ==
    \E r \in Requests :
        /\ arity = 3
        /\ body[r] = "consumed"
        /\ pc[r] = "handler"
        /\ Len(steps[r]) = 6

\* What a request whose extractors and handler return o gets when it is the
\* only request: its calls, its response, its log output.
RejectedAt(o) ==
    IF \E k \in 1..arity : k <= Len(o) /\ o[k] = "Err"
    THEN CHOOSE k \in 1..arity : k <= Len(o) /\ o[k] = "Err"
    ELSE 0

AloneTail(o) ==
    IF o[Len(o)] = "Err"
    THEN <<<<"trace_error", 0>>, <<"handle_error", 0>>>>
    ELSE <<<<"into_response", 0>>>>

AloneSteps(o) ==
    IF arity = 0
    THEN <<<<"call", 0>>, <<"handler", 0>>>> \o AloneTail(o)
    ELSE IF RejectedAt(o) = 0
    THEN Lifecycle \o AloneTail(o)
    ELSE IF RejectedAt(o) = arity
    THEN SubSeq(Lifecycle, 1, Len(Lifecycle) - 1)
    ELSE SubSeq(Lifecycle, 1, 2 + RejectedAt(o))

AloneResponse(o) ==
    IF RejectedAt(o) # 0
    THEN rejection_into_response(Rejection(RejectedAt(o)))
    ELSE IF o[Len(o)] = "Err"
    THEN rendered_into_response(handle_error(MyErr))
    ELSE value_into_response([i \in 1..arity |-> Extracted(i, state)])

AloneLog(o) ==
    IF RejectedAt(o) = 0 /\ o[Len(o)] = "Err"
    THEN <<[message |-> "Oh no!",
            details |-> "MyErr",
            text |-> "An error occurred during request handling"]>>
    ELSE <<>>

C10_AsIfAlone ==
    \A r \in Requests :
        Done(r) =>
            /\ steps[r] = AloneSteps(outcomes[r])
            /\ responses[r] = <<AloneResponse(outcomes[r])>>
            /\ Carried(LogOf(r)) = AloneLog(outcomes[r])

C10_NeverBlocked ==
    \A r \in Requests : (Started(r) /\ ~Done(r)) => ENABLED Step(r)

C10_OneTaskPerStep ==
    \A r1, r2 \in Requests :
        (r1 # r2 /\ LocalNext(r1) # Local(r1)) => LocalNext(r2) = Local(r2)

\* C10: with several requests in flight the application state is never
\* written, a step of one task touches nothing of another, each request
\* makes the calls and gets the response and log output it would get alone,
\* and a task that has not finished can always take its next step whatever
\* the others are doing.
C10_RequestsDoNotInterfere ==
    /\ [](C10_AsIfAlone /\ C10_NeverBlocked)
    /\ [][state' = state /\ C10_OneTaskPerStep]_vars

C10_Witness ==
    \E r1, r2 \in Requests :
        /\ r1 # r2
        /\ arity = 3
        /\ pc[r1] = "render"
        /\ pc[r2] = "extract"
        /\ idx[r2] = 2
        /\ Len(log) = 1

====
